---- MODULE Spec2Model ----
(***************************************************************************)
(* Model of the IBM Cloud hibernation actuator                             *)
(* (pkg/controller/hibernation/ibmcloud_actuator.go) and of the parts of   *)
(* the IBM Cloud client it drives (pkg/ibmclient/client.go).               *)
(*                                                                         *)
(* Strings that the code inspects character by character (instance names,  *)
(* infrastructure IDs, VPC names) are sequences of one-character strings;  *)
(* status strings, which the code only tests for set membership, are TLA+  *)
(* strings.                                                                *)
(***************************************************************************)
EXTENDS Integers, Sequences, FiniteSets, TLC

\* Largest number of instances the account holds.
MaxInst == 3

\* Largest number of instances the account holds while a caller drives the
\* client directly.
MaxCtxInst == 2

\* Largest number of instances the account holds while a reconciler polls the
\* cluster down.
MaxPollInst == 2

(***************************************************************************)
(* Helpers on sequences                                                    *)
(***************************************************************************)
Range(s) == {s[i] : i \in DOMAIN s}

\* All sequences over S of length at most n without repeated elements.
RECURSIVE InjSeqs(_, _)
InjSeqs(S, n) ==
    IF n = 0 THEN {<<>>}
    ELSE LET shorter == InjSeqs(S, n - 1)
         IN  shorter \cup {Append(s, x) : <<s, x>> \in
                               {p \in shorter \X S : Len(p[1]) = n - 1 /\ p[2] \notin Range(p[1])}}

(***************************************************************************)
(* Status sets, ibmcloud_actuator.go:18-29                                 *)
(***************************************************************************)
ibmRunningStates == {"running"}
ibmStoppedStates == {"stopped"}
ibmPendingStates == {"pending"}
ibmStoppingStates == {"stopping"}
ibmRunningOrPendingStates == ibmRunningStates \cup ibmPendingStates
ibmStoppedOrStoppingStates == ibmStoppedStates \cup ibmStoppingStates
ibmNotRunningStates == ibmStoppedOrStoppingStates \cup ibmPendingStates
ibmNotStoppedStates == ibmRunningOrPendingStates \cup ibmStoppingStates

\* The four sets the actuator's methods actually pass to
\* getIBMCloudClusterInstances are package-level variables declared in another
\* file of package hibernation; they are the predicate sets of spec section 3.
runningOrPendingStates == {"running", "pending"}
stoppedOrStoppingStates == {"stopped", "stopping"}
notRunningStates == stoppedOrStoppingStates \cup {"pending"}
notStoppedStates == runningOrPendingStates \cup {"stopping"}

\* Status strings the provider reports in this model: the four the sets know,
\* "starting" (a documented IBM Cloud status no set contains) and the empty
\* string.
Statuses == {"running", "pending", "stopping", "stopped", "starting", ""}

(***************************************************************************)
(* The account                                                             *)
(***************************************************************************)
\* cd.Spec.ClusterMetadata.InfraID of the ClusterDeployment being driven.
infraID == <<"a">>

\* Infrastructure ID of another cluster of the same account; it contains
\* infraID as a substring.
otherInfraID == <<"a", "b">>

\* fmt.Sprintf("%s-vpc", infraID)
VPCName(id) == id \o <<"-", "v", "p", "c">>

\* The instances that may exist in the account.  A cluster's instances carry
\* its infrastructure ID as a name prefix and live in the VPC named after it.
\* Cluster is the cluster an instance was created for; the code never reads it.
InstancePool ==
    {[Name |-> infraID \o <<s>>, ID |-> <<"0">> \o infraID \o <<s>>,
      VPC |-> VPCName(infraID), Cluster |-> infraID] : s \in {"m", "w", "x"}}
    \cup {[Name |-> otherInfraID \o <<"m">>, ID |-> <<"0">> \o otherInfraID \o <<"m">>,
           VPC |-> VPCName(otherInfraID), Cluster |-> otherInfraID]}

WithStatus(i, st) ==
    [Name |-> i.Name, ID |-> i.ID, VPC |-> i.VPC, Cluster |-> i.Cluster, Status |-> st]

VARIABLES
    account,     \* the provider's instances, in the order the provider lists them
    lastOp,      \* the operation that ran last
    apiCalls,    \* ibmclient.API methods the operation called, with arguments
    sdkCalls,    \* vpcAPI requests the operation issued
    listed,      \* what GetVPCInstances returned to the operation
    ret,         \* what the operation returned
    env,         \* the failures the environment injected into the operation
    inflight,    \* the client call waiting for the provider, or None
    ctx          \* state of the caller's context.Context

vars == <<account, lastOp, apiCalls, sdkCalls, listed, ret, env, inflight, ctx>>

None == [method |-> "none"]

(***************************************************************************)
(* Errors                                                                  *)
(***************************************************************************)
\* An error value: its Go type, the chain of messages, outermost first, and
\* the instances its text identifies.
NewError(message, names) ==
    [isNil |-> FALSE, type |-> "error", msg |-> <<message>>, names |-> names]

nil == [isNil |-> TRUE, type |-> "nil", msg |-> <<>>, names |-> {}]

\* &VPCResourceNotFoundError{}
VPCResourceNotFoundError ==
    [isNil |-> FALSE, type |-> "VPCResourceNotFoundError", msg |-> <<"Not Found">>, names |-> {}]

\* errors.Wrap(err, message)
Wrap(err, message) == [err EXCEPT !.msg = <<message>> \o @]

\* errors.Wrapf(err, "... for instance %q", name)
WrapfName(err, message, name) ==
    [err EXCEPT !.msg = <<message>> \o @, !.names = @ \cup {name}]

(***************************************************************************)
(* pkg/ibmclient/client.go                                                 *)
(***************************************************************************)
\* strings.Contains(s, substr)
ContainsStr(s, substr) ==
    \E i \in 1..(Len(s) + 1) :
        /\ i + Len(substr) - 1 <= Len(s)
        /\ SubSeq(s, i, i + Len(substr) - 1) = substr

\* c.vpcAPI.ListInstances(options) with options.VPCName set: the provider's
\* answer, the account's instances that live in the VPC of that name.
ListInstances(acct, vpcName) == SelectSeq(acct, LAMBDA i : i.VPC = vpcName)

\* The loop of GetVPCInstances over result.Instances.
RECURSIVE NameLoop(_, _, _)
NameLoop(result, idx, id) ==
    IF idx > Len(result) THEN <<>>
    ELSE IF ContainsStr(result[idx].Name, id)
         THEN <<result[idx]>> \o NameLoop(result, idx + 1, id)
         ELSE NameLoop(result, idx + 1, id)

\* GetVPCInstances without options.SetVPCName: every VPC is listed.
GetVPCInstances_AnyVPC(acct, id) == NameLoop(acct, 1, id)

\* Client.GetVPCInstances when ListInstances succeeds.
GetVPCInstances(acct, id) == NameLoop(ListInstances(acct, VPCName(id)), 1, id)

\* The request Client.GetVPCInstances issues.
ListRequest(id, ok) ==
    [api |-> "ListInstances", arg |-> VPCName(id), type |-> "", ok |-> ok]

ActionRequest(instance, type, ok) ==
    [api |-> "CreateInstanceAction", arg |-> instance.ID, type |-> type, ok |-> ok]

\* The error Client.StopInstances returns when the action on `instance` fails
\* with the provider error `err`.
StopError(err, instance) == Wrap(err, "failed to create stop instance action")

\* The error Client.StartInstances returns when the action on `instance` fails
\* with the provider error `err`.
StartError(err, instance) ==
    WrapfName(err, "failed to create start instance action for instance", instance.Name)

\* Status of an instance once the provider accepted an action on it.
AfterAction(type) == IF type = "stop" THEN "stopping" ELSE "starting"

ApplyAction(acct, id, type) ==
    [k \in DOMAIN acct |->
        IF acct[k].ID = id THEN WithStatus(acct[k], AfterAction(type)) ELSE acct[k]]

\* The loop without the return at the first failure: the remaining instances
\* are still acted on and the error is returned at the end.
RECURSIVE ActionLoop_Continue(_, _, _, _, _, _)
ActionLoop_Continue(instances, k, type, failAt, sdkErr, st) ==
    IF k > Len(instances)
    THEN [err |-> IF failAt \in DOMAIN instances
                  THEN IF type = "stop" THEN StopError(sdkErr, instances[failAt])
                                        ELSE StartError(sdkErr, instances[failAt])
                  ELSE nil,
          sdk |-> st.sdk, account |-> st.account]
    ELSE ActionLoop_Continue(instances, k + 1, type, failAt, sdkErr,
             [sdk |-> Append(st.sdk, ActionRequest(instances[k], type, k # failAt)),
              account |-> IF k = failAt THEN st.account
                          ELSE ApplyAction(st.account, instances[k].ID, type)])

\* The loop shared by Client.StopInstances and Client.StartInstances: one
\* CreateInstanceAction per instance, returning at the first failure.  The
\* provider fails the failAt-th request (none when failAt = 0) with sdkErr.
RECURSIVE ActionLoop(_, _, _, _, _, _)
ActionLoop(instances, k, type, failAt, sdkErr, st) ==
    IF k > Len(instances) THEN [err |-> nil, sdk |-> st.sdk, account |-> st.account]
    ELSE IF k = failAt
         THEN [err |-> IF type = "stop" THEN StopError(sdkErr, instances[k])
                                       ELSE StartError(sdkErr, instances[k]),
               sdk |-> Append(st.sdk, ActionRequest(instances[k], type, FALSE)),
               account |-> st.account]
         ELSE ActionLoop(instances, k + 1, type, failAt, sdkErr,
                         [sdk |-> Append(st.sdk, ActionRequest(instances[k], type, TRUE)),
                          account |-> ApplyAction(st.account, instances[k].ID, type)])

\* StopInstances sending the action type of StartInstances.
StopInstances_StartType(acct, instances, failAt, sdkErr) ==
    ActionLoop(instances, 1, "start", failAt, sdkErr, [sdk |-> <<>>, account |-> acct])

\* Client.StopInstances
StopInstances(acct, instances, failAt, sdkErr) ==
    ActionLoop(instances, 1, "stop", failAt, sdkErr, [sdk |-> <<>>, account |-> acct])

\* Client.StartInstances
StartInstances(acct, instances, failAt, sdkErr) ==
    ActionLoop(instances, 1, "start", failAt, sdkErr, [sdk |-> <<>>, account |-> acct])

(***************************************************************************)
(* pkg/controller/hibernation/ibmcloud_actuator.go                         *)
(***************************************************************************)
\* What a method of the actuator leaves behind: its return values, the calls
\* it made and the provider's instances afterwards.
Outcome(ok, names, namesNil, err, api, sdk, lst, acct) ==
    [ret |-> [ok |-> ok, names |-> names, namesNil |-> namesNil, err |-> err],
     api |-> api, sdk |-> sdk, listed |-> lst, account |-> acct]

\* The error of a.ibmCloudClientFn (getIBMCloudClient).
ClientError ==
    Wrap(NewError("secret not found", {}), "failed to fetch IBM Cloud credentials secret")

\* The error of Client.GetVPCInstances.
ListError == Wrap(NewError("provider error", {}), "failed to list vpc instances")

\* The provider errors a failed CreateInstanceAction may carry: the SDK's text
\* identifies the instance or it does not.
SdkErrors(instances, failAt) ==
    IF failAt \in DOMAIN instances
    THEN {NewError("provider error", {}), NewError("provider error", {instances[failAt].ID})}
    ELSE {NewError("provider error", {})}

\* The error is dropped: the method stops and reports success.
ErrReturn_Swallow(err, api, sdk, acct) == Outcome(TRUE, <<>>, FALSE, nil, api, sdk, <<>>, acct)

\* "return err" and "return false, nil, err": the method stops with the error.
ErrReturn(err, api, sdk, acct) == Outcome(FALSE, <<>>, TRUE, err, api, sdk, <<>>, acct)

\* The loop of getIBMCloudClusterInstances: keep the instances whose status
\* is in states.
RECURSIVE StatesLoop(_, _, _)
StatesLoop(instances, idx, states) ==
    IF idx > Len(instances) THEN <<>>
    ELSE IF instances[idx].Status \in states
         THEN <<instances[idx]>> \o StatesLoop(instances, idx + 1, states)
         ELSE StatesLoop(instances, idx + 1, states)

\* getIBMCloudClusterInstances when c.GetVPCInstances succeeds.
getIBMCloudClusterInstances(acct, states) ==
    StatesLoop(GetVPCInstances(acct, infraID), 1, states)

\* ibmCloudInstanceNames
ibmCloudInstanceNames(instances) == [i \in DOMAIN instances |-> instances[i].Name]

GetVPCInstancesCall == [method |-> "GetVPCInstances", arg |-> <<infraID>>]

\* The early return is missing.
NothingToDo_Never(instances) == FALSE

\* "if len(instances) == 0" of StopMachines and StartMachines
NothingToDo(instances) == Len(instances) = 0

\* The part StopMachines and StartMachines share: build the client, list,
\* filter by states, return early when nothing is left, else act.
MutateMachines(acct, states, type, fault, failAt, sdkErr) ==
    IF fault = "client"
    THEN ErrReturn(ClientError, <<>>, <<>>, acct)
    ELSE IF fault = "list"
    THEN ErrReturn(ListError, <<GetVPCInstancesCall>>, <<ListRequest(infraID, FALSE)>>, acct)
    ELSE LET lst == GetVPCInstances(acct, infraID)
             instances == getIBMCloudClusterInstances(acct, states)
         IN  IF NothingToDo(instances)
             THEN Outcome(TRUE, <<>>, TRUE, nil, <<GetVPCInstancesCall>>,
                          <<ListRequest(infraID, TRUE)>>, lst, acct)
             ELSE LET r == IF type = "stop"
                           THEN StopInstances(acct, instances, failAt, sdkErr)
                           ELSE StartInstances(acct, instances, failAt, sdkErr)
                      method == IF type = "stop" THEN "StopInstances" ELSE "StartInstances"
                  IN  Outcome(r.err.isNil, <<>>, TRUE, r.err,
                              <<GetVPCInstancesCall, [method |-> method, arg |-> instances]>>,
                              <<ListRequest(infraID, TRUE)>> \o r.sdk, lst, r.account)

\* StopMachines filtering on the not-stopped states.
StopMachinesRun_NotStopped(acct, fault, failAt, sdkErr) ==
    MutateMachines(acct, notStoppedStates, "stop", fault, failAt, sdkErr)

\* ibmCloudActuator.StopMachines
StopMachinesRun(acct, fault, failAt, sdkErr) ==
    MutateMachines(acct, runningOrPendingStates, "stop", fault, failAt, sdkErr)

\* StartMachines filtering on the not-running states.
StartMachinesRun_NotRunning(acct, fault, failAt, sdkErr) ==
    MutateMachines(acct, notRunningStates, "start", fault, failAt, sdkErr)

\* ibmCloudActuator.StartMachines
StartMachinesRun(acct, fault, failAt, sdkErr) ==
    MutateMachines(acct, stoppedOrStoppingStates, "start", fault, failAt, sdkErr)

\* The part MachinesRunning and MachinesStopped share.
ObserveMachines(acct, states, fault) ==
    IF fault = "client"
    THEN ErrReturn(ClientError, <<>>, <<>>, acct)
    ELSE IF fault = "list"
    THEN ErrReturn(ListError, <<GetVPCInstancesCall>>, <<ListRequest(infraID, FALSE)>>, acct)
    ELSE LET instances == getIBMCloudClusterInstances(acct, states)
         IN  Outcome(Len(instances) = 0, ibmCloudInstanceNames(instances), FALSE, nil,
                     <<GetVPCInstancesCall>>, <<ListRequest(infraID, TRUE)>>,
                     GetVPCInstances(acct, infraID), acct)

\* MachinesRunning filtering on the stopped-or-stopping states.
MachinesRunningRun_NoPending(acct, fault) ==
    ObserveMachines(acct, stoppedOrStoppingStates, fault)

\* ibmCloudActuator.MachinesRunning
MachinesRunningRun(acct, fault) == ObserveMachines(acct, notRunningStates, fault)

\* MachinesStopped filtering on the running-or-pending states.
MachinesStoppedRun_NoStopping(acct, fault) ==
    ObserveMachines(acct, runningOrPendingStates, fault)

\* ibmCloudActuator.MachinesStopped
MachinesStoppedRun(acct, fault) == ObserveMachines(acct, notStoppedStates, fault)

(***************************************************************************)
(* Client calls made with a caller's context                               *)
(***************************************************************************)
\* Client.GetSubnet once c.vpcAPI.GetSubnet answered with HTTP status resp.
GetSubnetReturn(resp) ==
    IF resp = "404" THEN [ok |-> FALSE, names |-> <<>>, namesNil |-> TRUE,
                          err |-> VPCResourceNotFoundError]
    ELSE IF resp = "200" THEN [ok |-> TRUE, names |-> <<>>, namesNil |-> TRUE, err |-> nil]
    ELSE [ok |-> FALSE, names |-> <<>>, namesNil |-> TRUE,
          err |-> NewError("provider error", {})]

\* Client.GetVPCInstances once c.vpcAPI.ListInstances answered.
GetVPCInstancesReturn(acct, id, resp) ==
    IF resp = "200"
    THEN Outcome(TRUE, <<>>, TRUE, nil, <<>>, <<ListRequest(id, TRUE)>>,
                 GetVPCInstances(acct, id), acct)
    ELSE ErrReturn(ListError, <<>>, <<ListRequest(id, FALSE)>>, acct)

(***************************************************************************)
(* The state machine                                                       *)
(***************************************************************************)
Accounts(n) ==
    UNION {{[k \in DOMAIN ids |-> WithStatus(ids[k], sts[k])] :
                sts \in [DOMAIN ids -> Statuses]} : ids \in InjSeqs(InstancePool, n)}

NoRet == [ok |-> FALSE, names |-> <<>>, namesNil |-> TRUE, err |-> nil]

NoFault == [fault |-> "none", failAt |-> 0]

Init ==
    /\ account \in Accounts(MaxInst)
    /\ lastOp = "none"
    /\ apiCalls = <<>>
    /\ sdkCalls = <<>>
    /\ listed = <<>>
    /\ ret = NoRet
    /\ env = NoFault
    /\ inflight = None
    /\ ctx = "active"

\* Record an actuator method's outcome.  The actuator hands context.TODO()
\* to the client, a context that is never done.
Finish(op, r, fault, failAt) ==
    /\ lastOp' = op
    /\ account' = r.account
    /\ apiCalls' = r.api
    /\ sdkCalls' = r.sdk
    /\ listed' = r.listed
    /\ ret' = r.ret
    /\ env' = [fault |-> fault, failAt |-> failAt]
    /\ ctx' = "active"
    /\ UNCHANGED inflight

\* The failures that can be injected into StopMachines or StartMachines: the
\* client cannot be built, the listing fails, or the failAt-th action fails.
MutateFaults(targets) ==
    {<<"client", 0>>, <<"list", 0>>} \cup {<<"none", k>> : k \in 0..Len(targets)}

StopMachines ==
    /\ inflight = None
    /\ \E f \in MutateFaults(getIBMCloudClusterInstances(account, runningOrPendingStates)) :
         \E sdkErr \in SdkErrors(getIBMCloudClusterInstances(account, runningOrPendingStates), f[2]) :
            Finish("StopMachines", StopMachinesRun(account, f[1], f[2], sdkErr), f[1], f[2])

StartMachines ==
    /\ inflight = None
    /\ \E f \in MutateFaults(getIBMCloudClusterInstances(account, stoppedOrStoppingStates)) :
         \E sdkErr \in SdkErrors(getIBMCloudClusterInstances(account, stoppedOrStoppingStates), f[2]) :
            Finish("StartMachines", StartMachinesRun(account, f[1], f[2], sdkErr), f[1], f[2])

MachinesRunning ==
    /\ inflight = None
    /\ \E fault \in {"none", "client", "list"} :
            Finish("MachinesRunning", MachinesRunningRun(account, fault), fault, 0)

MachinesStopped ==
    /\ inflight = None
    /\ \E fault \in {"none", "client", "list"} :
            Finish("MachinesStopped", MachinesStoppedRun(account, fault), fault, 0)

\* A caller invokes Client.GetSubnet or Client.GetVPCInstances with its own
\* context; the request is sent and the call waits for the provider.
ClientCall ==
    /\ inflight = None
    /\ \E m \in {"GetSubnet", "GetVPCInstances"} :
         /\ inflight' = [method |-> m]
         /\ lastOp' = m
    /\ ctx' = "active"
    /\ apiCalls' = <<>>
    /\ sdkCalls' = <<>>
    /\ listed' = <<>>
    /\ ret' = NoRet
    /\ env' = NoFault
    /\ UNCHANGED account

\* While the call waits, the caller cancels its context or the context's
\* deadline passes.
CtxDone ==
    /\ inflight # None
    /\ ctx = "active"
    /\ ctx' \in {"canceled", "deadline"}
    /\ UNCHANGED <<account, lastOp, apiCalls, sdkCalls, listed, ret, env, inflight>>

\* The provider answers and the call returns.  The request was sent without
\* the caller's context (and the context derived by WithTimeout is
\* discarded), so the answer does not depend on ctx.
ClientReturn ==
    /\ inflight # None
    /\ \E resp \in {"200", "404", "500"} :
         IF inflight.method = "GetSubnet"
         THEN /\ ret' = GetSubnetReturn(resp)
              /\ sdkCalls' = <<[api |-> "GetSubnet", arg |-> <<>>, type |-> "",
                                ok |-> resp = "200"]>>
              /\ listed' = <<>>
         ELSE LET r == GetVPCInstancesReturn(account, infraID, resp)
              IN  /\ ret' = r.ret
                  /\ sdkCalls' = r.sdk
                  /\ listed' = r.listed
    /\ inflight' = None
    /\ UNCHANGED <<account, lastOp, apiCalls, env, ctx>>

\* The reconciler driving the actuator.
Next ==
    \/ StopMachines
    \/ StartMachines
    \/ MachinesRunning
    \/ MachinesStopped

Spec == Init /\ [][Next]_vars

\* A caller driving the client with its own context.
InitCtx ==
    /\ account \in Accounts(MaxCtxInst)
    /\ lastOp = "none"
    /\ apiCalls = <<>>
    /\ sdkCalls = <<>>
    /\ listed = <<>>
    /\ ret = NoRet
    /\ env = NoFault
    /\ inflight = None
    /\ ctx = "active"

NextCtx ==
    \/ ClientCall
    \/ CtxDone
    \/ ClientReturn

SpecCtx == InitCtx /\ [][NextCtx]_vars

(***************************************************************************)
(* Properties                                                              *)
(***************************************************************************)
ActuatorOps == {"StopMachines", "StartMachines", "MachinesRunning", "MachinesStopped"}

\* The client and the listing both succeeded in the last actuator method.
ListingSucceeded == lastOp \in ActuatorOps /\ env.fault = "none"

\* The calls the last method made to the given ibmclient.API method.
CallsTo(method) == SelectSeq(apiCalls, LAMBDA c : c.method = method)

\* The CreateInstanceAction requests the last method issued.
Mutations == SelectSeq(sdkCalls, LAMBDA r : r.api = "CreateInstanceAction")

\* The listed instances whose status is in S, in listing order.
ListedWith(S) == SelectSeq(listed, LAMBDA i : i.Status \in S)

NamesOf(instances) == [k \in DOMAIN instances |-> instances[k].Name]

\* C1: when the client is built and the listing succeeds, StopMachines passes
\* to StopInstances exactly the listed instances whose status is running or
\* pending, in listing order (no call at all when there is none), makes no
\* StartInstances call, and every action it issues is a stop of one of them.
C1_StopTargets ==
    (lastOp = "StopMachines" /\ ListingSucceeded) =>
        LET targets == ListedWith({"running", "pending"})
        IN  /\ CallsTo("StartInstances") = <<>>
            /\ CallsTo("StopInstances") =
                   IF targets = <<>> THEN <<>>
                   ELSE <<[method |-> "StopInstances", arg |-> targets]>>
            /\ \A k \in DOMAIN Mutations :
                   /\ Mutations[k].type = "stop"
                   /\ k \in DOMAIN targets
                   /\ Mutations[k].arg = targets[k].ID

\* Scenario A: [running, stopped] listed, StopInstances called on the first only.
C1_Witness ==
    /\ lastOp = "StopMachines" /\ ListingSucceeded
    /\ Len(listed) = 2
    /\ listed[1].Status = "running" /\ listed[2].Status = "stopped"
    /\ CallsTo("StopInstances") = <<[method |-> "StopInstances", arg |-> <<listed[1]>>]>>

\* C2: when the client is built and the listing succeeds, StartMachines passes
\* to StartInstances exactly the listed instances whose status is stopped or
\* stopping, in listing order, makes no StopInstances call, and every action
\* it issues is a start of one of them.
C2_StartTargets ==
    (lastOp = "StartMachines" /\ ListingSucceeded) =>
        LET targets == ListedWith({"stopped", "stopping"})
        IN  /\ CallsTo("StopInstances") = <<>>
            /\ CallsTo("StartInstances") =
                   IF targets = <<>> THEN <<>>
                   ELSE <<[method |-> "StartInstances", arg |-> targets]>>
            /\ \A k \in DOMAIN Mutations :
                   /\ Mutations[k].type = "start"
                   /\ k \in DOMAIN targets
                   /\ Mutations[k].arg = targets[k].ID

\* [stopping, pending, stopped] listed, StartInstances called on the first and third.
C2_Witness ==
    /\ lastOp = "StartMachines" /\ ListingSucceeded
    /\ Len(listed) = 3
    /\ listed[1].Status = "stopping" /\ listed[2].Status = "pending"
    /\ listed[3].Status = "stopped"
    /\ CallsTo("StartInstances") =
           <<[method |-> "StartInstances", arg |-> <<listed[1], listed[3]>>]>>

\* C3: when no listed instance is in the method's target set (all stopped for
\* StopMachines, or nothing listed), StopMachines and StartMachines return
\* success, make no StopInstances or StartInstances call, issue no action, and
\* leave the cluster's instances as listed, so the same holds of every repeat.
C3_NothingToDo ==
    (lastOp \in {"StopMachines", "StartMachines"} /\ ListingSucceeded
       /\ ListedWith(IF lastOp = "StopMachines" THEN {"running", "pending"}
                                                ELSE {"stopped", "stopping"}) = <<>>) =>
        /\ ret.err.isNil /\ ret.ok
        /\ CallsTo("StopInstances") = <<>>
        /\ CallsTo("StartInstances") = <<>>
        /\ Mutations = <<>>
        /\ SelectSeq(account, LAMBDA i : i.Cluster = infraID) = listed

\* StopMachines ran on three instances that were all stopped.
C3_Witness ==
    /\ lastOp = "StopMachines" /\ ListingSucceeded
    /\ Len(listed) = 3
    /\ \A k \in DOMAIN listed : listed[k].Status = "stopped"
    /\ ret.err.isNil

\* C4: when the listing succeeds, MachinesRunning returns (allRunning,
\* stragglers, nil) where stragglers are the names of the listed instances
\* whose status is stopped, stopping or pending, in listing order, and
\* allRunning is true exactly when there is none.
C4_MachinesRunning ==
    (lastOp = "MachinesRunning" /\ ListingSucceeded) =>
        /\ ret.err.isNil
        /\ ~ret.namesNil
        /\ ret.names = NamesOf(ListedWith({"stopped", "stopping", "pending"}))
        /\ ret.ok <=> (ret.names = <<>>)

\* MachinesRunning reported two stragglers among three listed instances, one
\* of them pending.
C4_Witness ==
    /\ lastOp = "MachinesRunning" /\ ListingSucceeded
    /\ Len(listed) = 3 /\ Len(ret.names) = 2 /\ ~ret.ok
    /\ listed[1].Status = "running" /\ listed[2].Status = "pending"
    /\ ret.names = <<listed[2].Name, listed[3].Name>>

\* C5: when the listing succeeds, MachinesStopped returns (allStopped,
\* stragglers, nil) where stragglers are the names of the listed instances
\* whose status is running, pending or stopping, in listing order, and
\* allStopped is true exactly when there is none.
C5_MachinesStopped ==
    (lastOp = "MachinesStopped" /\ ListingSucceeded) =>
        /\ ret.err.isNil
        /\ ~ret.namesNil
        /\ ret.names = NamesOf(ListedWith({"running", "pending", "stopping"}))
        /\ ret.ok <=> (ret.names = <<>>)

\* Scenario B: one instance, stopping; MachinesStopped returns (false, [name], nil).
C5_Witness ==
    /\ lastOp = "MachinesStopped" /\ ListingSucceeded
    /\ Len(listed) = 1 /\ listed[1].Status = "stopping"
    /\ ~ret.ok /\ ret.names = <<listed[1].Name>> /\ ret.err.isNil

\* The status strings the four state sets know.
Recognised == {"running", "pending", "stopping", "stopped"}

\* C6: a listed instance whose status is empty or unrecognised is named among
\* the stragglers of MachinesRunning and of MachinesStopped, and is never
\* passed to StopInstances or StartInstances.
C6_UnknownSurfaced ==
    /\ (lastOp \in {"MachinesRunning", "MachinesStopped"} /\ ListingSucceeded) =>
           \A k \in DOMAIN listed :
               listed[k].Status \notin Recognised => listed[k].Name \in Range(ret.names)
    /\ (lastOp \in {"StopMachines", "StartMachines"} /\ ListingSucceeded) =>
           \A c \in Range(CallsTo("StopInstances")) \cup Range(CallsTo("StartInstances")) :
               \A i \in Range(c.arg) : i.Status \in Recognised

\* The request of the last method that the provider failed.
FailedActions == SelectSeq(sdkCalls, LAMBDA r : r.api = "CreateInstanceAction" /\ ~r.ok)

\* The listed instance with the given ID.
ListedByID(id) == CHOOSE i \in Range(listed) : i.ID = id

\* C7: when an individual stop or start action fails, StopMachines or
\* StartMachines reports failure and the error identifies the instance whose
\* action failed.
C7_FailureIdentified ==
    (lastOp \in {"StopMachines", "StartMachines"} /\ FailedActions # <<>>) =>
        /\ ~ret.err.isNil
        /\ ~ret.ok
        /\ \A k \in DOMAIN FailedActions :
               \/ FailedActions[k].arg \in ret.err.names
               \/ ListedByID(FailedActions[k].arg).Name \in ret.err.names

\* C8: in each of the four methods, a failure to build the client returns that
\* error with no provider call made; a failed listing returns that error after
\* the single list request, with no StopInstances or StartInstances call and
\* no action; and the observation methods return (false, nil, err).
C8_ErrorsAbort ==
    lastOp \in ActuatorOps =>
        /\ env.fault = "client" =>
               /\ ret.err = ClientError /\ ~ret.err.isNil
               /\ ~ret.ok /\ ret.namesNil /\ ret.names = <<>>
               /\ apiCalls = <<>> /\ sdkCalls = <<>>
        /\ env.fault = "list" =>
               /\ ret.err = ListError /\ ~ret.err.isNil
               /\ ~ret.ok /\ ret.namesNil /\ ret.names = <<>>
               /\ Len(apiCalls) = 1 /\ apiCalls[1].method = "GetVPCInstances"
               /\ Len(sdkCalls) = 1 /\ sdkCalls[1].api = "ListInstances"

\* The listing failed in StopMachines while an instance of the cluster was
\* running, and in MachinesStopped.
C8_Witness ==
    /\ lastOp \in {"StopMachines", "MachinesStopped"}
    /\ env.fault = "list"
    /\ \E k \in DOMAIN account :
           account[k].Cluster = infraID /\ account[k].Status = "running"
    /\ ~ret.err.isNil

\* C9: when the caller's context is cancelled or its deadline passes while a
\* provider call is in flight, the client call returns a cancellation error,
\* one that is neither a not-found error nor a provider error, and never a
\* successful result.
C9_CancelAborts ==
    (lastOp \in {"GetSubnet", "GetVPCInstances"} /\ inflight = None /\ ctx # "active") =>
        /\ ~ret.err.isNil
        /\ ~ret.ok
        /\ ret.err.type = "context"

Given ==
    LET c == CallsTo("StopInstances") \o CallsTo("StartInstances")
    IN  IF c = <<>> THEN <<>> ELSE c[1].arg

\* The account's instance with the given ID.
AccountByID(id) == CHOOSE i \in Range(account) : i.ID = id

\* C11: StopInstances and StartInstances issue one action per instance of the
\* given list, in the order of the list; when the action for the k-th
\* instance fails, instances 1..k-1 have each received exactly one accepted
\* action, the k-th one failed request, instances k+1..n none, and instances
\* k..n still have the status they were listed with, so that a later
\* invocation finds them again.
C11_SequentialAbort ==
    (lastOp \in {"StopMachines", "StartMachines"} /\ ListingSucceeded /\ Given # <<>>) =>
        LET n == Len(Given)
            k == env.failAt
            issued == IF k = 0 THEN n ELSE k
            type == IF lastOp = "StopMachines" THEN "stop" ELSE "start"
            Count(id) == Cardinality({j \in DOMAIN Mutations : Mutations[j].arg = id})
        IN  /\ Len(Mutations) = issued
            /\ \A j \in 1..issued :
                   /\ Mutations[j].arg = Given[j].ID
                   /\ Mutations[j].type = type
                   /\ Mutations[j].ok <=> (j # k)
            /\ \A j \in 1..n : Count(Given[j].ID) = IF j <= issued THEN 1 ELSE 0
            /\ \A j \in 1..n :
                   IF k # 0 /\ j >= k
                   THEN AccountByID(Given[j].ID).Status = Given[j].Status
                   ELSE AccountByID(Given[j].ID).Status # Given[j].Status
            /\ ret.err.isNil <=> (k = 0)

\* The stop of the second of three running instances failed: two requests went
\* out, the first instance is stopping, the second and third still run.
C11_Witness ==
    /\ lastOp = "StopMachines" /\ ListingSucceeded
    /\ Len(Given) = 3 /\ env.failAt = 2
    /\ \A j \in 1..3 : Given[j].Status = "running"
    /\ Len(Mutations) = 2
    /\ AccountByID(Given[1].ID).Status = "stopping"
    /\ AccountByID(Given[3].ID).Status = "running"

(***************************************************************************)
(* A reconciler hibernating the cluster: it alternates StopMachines and    *)
(* MachinesStopped, never calls StartMachines, and no call fails; the      *)
(* provider completes the transitions it has begun.                        *)
(***************************************************************************)
\* The accounts polled: up to MaxPollInst instances, each in a status the
\* state sets know.
PollAccounts ==
    {a \in Accounts(MaxPollInst) : \A k \in DOMAIN a : a[k].Status \in Recognised}

InitPoll ==
    /\ account \in PollAccounts
    /\ lastOp = "none"
    /\ apiCalls = <<>>
    /\ sdkCalls = <<>>
    /\ listed = <<>>
    /\ ret = NoRet
    /\ env = NoFault
    /\ inflight = None
    /\ ctx = "active"

PollStop ==
    /\ lastOp # "StopMachines"
    /\ \E r \in {StopMachinesRun(account, "none", 0, NewError("provider error", {}))} :
           Finish("StopMachines", r, "none", 0)

PollObserve ==
    /\ lastOp = "StopMachines"
    /\ \E r \in {MachinesStoppedRun(account, "none")} :
           Finish("MachinesStopped", r, "none", 0)

\* The provider completes a transition: a stopping instance is stopped, a
\* pending instance runs.
ProviderProgress ==
    /\ \E k \in DOMAIN account :
         /\ account[k].Status \in {"stopping", "pending"}
         /\ account' = [account EXCEPT ![k] =
                WithStatus(@, IF @.Status = "stopping" THEN "stopped" ELSE "running")]
    /\ UNCHANGED <<lastOp, apiCalls, sdkCalls, listed, ret, env, inflight, ctx>>

NextPoll ==
    \/ PollStop
    \/ PollObserve
    \/ ProviderProgress

SpecPoll ==
    /\ InitPoll
    /\ [][NextPoll]_vars
    /\ WF_vars(PollStop)
    /\ WF_vars(PollObserve)
    /\ WF_vars(ProviderProgress)

\* MachinesStopped has just returned (true, [], nil).
Converged ==
    /\ lastOp = "MachinesStopped"
    /\ ret.ok /\ ret.names = <<>> /\ ~ret.namesNil /\ ret.err.isNil

\* Every instance of the cluster is stopped, a StopMachines that has just
\* returned issued no action, and a MachinesStopped that has just returned
\* returned (true, [], nil).
Hibernated ==
    /\ \A k \in DOMAIN account :
           account[k].Cluster = infraID => account[k].Status = "stopped"
    /\ lastOp = "StopMachines" => (Mutations = <<>> /\ ret.err.isNil)
    /\ lastOp = "MachinesStopped" => Converged

\* C12: with recognised statuses only, no failing call, a provider that
\* completes its transitions and a caller alternating StopMachines and
\* MachinesStopped, MachinesStopped eventually returns (true, [], nil); from
\* then on the cluster's instances are all stopped, every StopMachines issues
\* no action and every MachinesStopped returns (true, [], nil).
C12_PollConverges == <>Converged /\ [](Converged => []Hibernated)

\* MachinesStopped returned (true, [], nil) for a cluster of two instances.
C12_Witness == Converged /\ Len(listed) = 2

====
